---- MODULE Spec2Model ----
(***************************************************************************)
(* TaskGraph of src/src/new/run.ts: registration of task descriptors,      *)
(* plan computation (topologicalSort), sequential execute and              *)
(* executeParallel, with the message annotation store the tasks write.     *)
(*                                                                         *)
(* A task action is an asynchronous function supplied by the caller: it    *)
(* is invoked, stays in progress for a while and then either completes or  *)
(* throws.  The error thrown by the action of task t is identified by t.   *)
(* A successful action stores its result on the message under its own key  *)
(* (the name of the task), as the task factories of the repository do; the *)
(* content stored is identified by the action that produced it.            *)
(***************************************************************************)
EXTENDS Naturals, Integers, Sequences, FiniteSets, TLC

\* The task names a caller registers or declares as a dependency.
Names == {"A", "B", "C"}

\* Bound on the total number of declared dependencies held by the graph.
MaxEdges == 3

\* Bound on the total number of declared dependencies held by the graph in
\* the specification in which descriptors are replaced (SpecReplace).
MaxEdgesReplace == 1

\* Largest number of declared dependencies of the graphs on which the
\* termination of calls is checked.
MaxEdgesLive == 2

\* The task actions a caller has at hand ("" stands for no action).
Actions == {"f", "g"}

VARIABLES
    order,    \* keys of #tasks in insertion order (a Map iterates in that order)
    deps,     \* deps[n]: the dependencies of the descriptor registered as n
    task,     \* task[n]: the action of the descriptor registered as n ("": none)
    added,    \* added[n]: the action the caller last passed to add for n ("" once deleted)
    data,     \* ChatMessage #data: key -> content, the action that wrote it ("": absent)
    data0,    \* the annotation store as it was when the current call started
    mode,     \* "idle", or what is being called: "execute", "executeParallel", "parallelPipe"
    plan,     \* the result of topologicalSort in the current call
    pos,      \* execute: position in the plan of the action being awaited; parallelPipe: tasks settled when it ended
    status,   \* per task: "none", "waiting", "running", "fulfilled", "rejected"
    reason,   \* per rejected unit: the task whose action threw the error ("" if none)
    calls,    \* per task: how often its action was invoked in the current call
    ran,      \* per task: the action that was invoked for it in the current call ("": none)
    log,      \* the task names in the order their actions were invoked
    result,   \* outcome of the call: [kind, path, name, causes], kind "none" until it ends
    maxTries,    \* the maxTries the keyword task was created with
    context,     \* the shared Context passed to every task: its #messages
    annotations, \* #data of the message passed to the tasks of tasks.ts: key -> DataItem
    inv,         \* per task invocation: [task, pc, innerContext, i, calls, hist, writes, error]
    wrapped,     \* the invocation of a task built by wrap: [pc, i, ctx, message, error]
    stored       \* for the messages wrap handles, the DataItem under the key of the task

graphVars == <<order, deps, task, added, data, data0, mode, plan, pos, status, reason,
               calls, ran, log, result>>

jsonVars == <<maxTries, context, annotations, inv>>

wrapVars == <<wrapped, stored>>

vars == <<graphVars, jsonVars, wrapVars>>

----------------------------------------------------------------------------
\* Helpers on sequences.

Range(s) == {s[i] : i \in 1..Len(s)}

SeqsUpTo(S, n) == UNION {[1..k -> S] : k \in 0..n}

Remove(s, x) == SelectSeq(s, LAMBDA y : y # x)

IndexOf(s, x) == IF x \in Range(s) THEN CHOOSE i \in 1..Len(s) : s[i] = x ELSE 0

RECURSIVE SumLen(_, _)
SumLen(f, S) ==
    IF S = {} THEN 0
    ELSE LET n == CHOOSE x \in S : TRUE IN Len(f[n]) + SumLen(f, S \ {n})

----------------------------------------------------------------------------
\* The graph: #tasks and its accessors.

has(name) == name \in Range(order)

get(name) == deps[name]

NoError == [kind |-> "none", path |-> <<>>, name |-> "", causes |-> <<>>]

CyclicDependencyError(path) ==
    [kind |-> "CyclicDependencyError", path |-> path, name |-> "", causes |-> <<>>]

TaskNotFound(name) ==
    [kind |-> "TaskNotFound", path |-> <<>>, name |-> name, causes |-> <<>>]

AggregateError(causes, name) ==
    [kind |-> "AggregateError", path |-> <<>>, name |-> name, causes |-> causes]

Ok == [kind |-> "ok", path |-> <<>>, name |-> "", causes |-> <<>>]

----------------------------------------------------------------------------
\* topologicalSort: depth-first traversal with the sets visited and visiting.
\* The traversal state is [sorted, visited, visiting, err]; visiting is kept as
\* the sequence of its elements in insertion order, which is the order in which
\* the spread [...visiting] lists them.  A thrown error ends the traversal: once
\* err is set, nothing else changes.

RECURSIVE visit(_, _)
RECURSIVE visitAll(_, _, _)

\* An iteration that takes the names last to first.
visitAllReversed(st, ds, i) ==
    IF i > Len(ds) THEN st
    ELSE visitAll(visit(st, ds[Len(ds) - i + 1]), ds, i + 1)

visitAll(st, ds, i) ==
    IF i > Len(ds) THEN st
    ELSE visitAll(visit(st, ds[i]), ds, i + 1)

\* A traversal that places a task before its dependencies (pre-order).
visitPreOrder(st, name) ==
    IF st.err.kind # "none" THEN st
    ELSE IF name \in st.visited THEN st
    ELSE IF name \in Range(st.visiting)
        THEN [st EXCEPT !.err = CyclicDependencyError(Append(st.visiting, name))]
    ELSE LET s1 == [st EXCEPT !.visiting = Append(@, name),
                              !.sorted = Append(@, name)] IN
         IF ~has(name)
         THEN [s1 EXCEPT !.err = TaskNotFound(name)]
         ELSE LET s2 == visitAll(s1, get(name), 1) IN
              IF s2.err.kind # "none" THEN s2
              ELSE [s2 EXCEPT !.visiting = Remove(@, name),
                              !.visited = @ \cup {name}]

\* A traversal that takes an unregistered name for a finished one.
visitSkipMissing(st, name) ==
    IF st.err.kind # "none" THEN st
    ELSE IF name \in st.visited \/ ~has(name) THEN st
    ELSE IF name \in Range(st.visiting)
        THEN [st EXCEPT !.err = CyclicDependencyError(Append(st.visiting, name))]
    ELSE LET s1 == [st EXCEPT !.visiting = Append(@, name)]
             s2 == visitAll(s1, get(name), 1) IN
         IF s2.err.kind # "none" THEN s2
         ELSE [s2 EXCEPT !.visiting = Remove(@, name),
                         !.visited = @ \cup {name},
                         !.sorted = Append(@, name)]

\* A traversal that marks a name finished on entry (two colours only).
visitMarkEarly(st, name) ==
    IF st.err.kind # "none" THEN st
    ELSE IF name \in st.visited THEN st
    ELSE LET s1 == [st EXCEPT !.visited = @ \cup {name}] IN
         IF ~has(name)
         THEN [s1 EXCEPT !.err = TaskNotFound(name)]
         ELSE LET s2 == visitAll(s1, get(name), 1) IN
              IF s2.err.kind # "none" THEN s2
              ELSE [s2 EXCEPT !.sorted = Append(@, name)]

\* A traversal that does not remember the names it has finished.
visitAgain(st, name) ==
    IF st.err.kind # "none" THEN st
    ELSE IF name \in Range(st.visiting)
        THEN [st EXCEPT !.err = CyclicDependencyError(Append(st.visiting, name))]
    ELSE LET s1 == [st EXCEPT !.visiting = Append(@, name)] IN
         IF ~has(name)
         THEN [s1 EXCEPT !.err = TaskNotFound(name)]
         ELSE LET s2 == visitAll(s1, get(name), 1) IN
              IF s2.err.kind # "none" THEN s2
              ELSE [s2 EXCEPT !.visiting = Remove(@, name),
                              !.visited = @ \cup {name},
                              !.sorted = Append(@, name)]

\* A traversal whose task-not-found error names the dependent task.
visitNamesDependent(st, name) ==
    IF st.err.kind # "none" THEN st
    ELSE IF name \in st.visited THEN st
    ELSE IF name \in Range(st.visiting)
        THEN [st EXCEPT !.err = CyclicDependencyError(Append(st.visiting, name))]
    ELSE LET s1 == [st EXCEPT !.visiting = Append(@, name)] IN
         IF ~has(name)
         THEN [s1 EXCEPT !.err = TaskNotFound(IF st.visiting = <<>> THEN name
                                              ELSE st.visiting[Len(st.visiting)])]
         ELSE LET s2 == visitAll(s1, get(name), 1) IN
              IF s2.err.kind # "none" THEN s2
              ELSE [s2 EXCEPT !.visiting = Remove(@, name),
                              !.visited = @ \cup {name},
                              !.sorted = Append(@, name)]

visit(st, name) ==
    IF st.err.kind # "none" THEN st
    ELSE IF name \in st.visited THEN st
    ELSE IF name \in Range(st.visiting)
        THEN [st EXCEPT !.err = CyclicDependencyError(Append(st.visiting, name))]
    ELSE LET s1 == [st EXCEPT !.visiting = Append(@, name)] IN
         IF ~has(name)
         THEN [s1 EXCEPT !.err = TaskNotFound(name)]
         ELSE LET s2 == visitAll(s1, get(name), 1) IN
              IF s2.err.kind # "none" THEN s2
              ELSE [s2 EXCEPT !.visiting = Remove(@, name),
                              !.visited = @ \cup {name},
                              !.sorted = Append(@, name)]

topologicalSort ==
    visitAll([sorted |-> <<>>, visited |-> {}, visiting |-> <<>>, err |-> NoError],
             order, 1)

----------------------------------------------------------------------------
\* The tasks of tasks.ts: what they read, and the values they handle.

\* Largest maxTries a keyword task is created with.
MaxTriesBound == 3

\* maxTries when createJsonTask is given none.
DefaultMaxTries == 3

\* Two invocations of tasks on the same message and shared context.
Invocations == {"first", "second"}

\* A turn of a conversation; the content is the concatenation of its parts.
SystemChatMessage(parts) == [role |-> "system", content |-> parts]
UserChatMessage(parts) == [role |-> "user", content |-> parts]
AssistantChatMessage(parts) == [role |-> "assistant", content |-> parts]

\* The content of the message the tasks are invoked with.
MessageContent == "tea and cake"

KeywordsInstruction == "extract keywords as a JSON array of strings"
SummaryInstruction == "summarize the message"

\* The shared context the caller built before invoking tasks.
SharedContext ==
    <<SystemChatMessage(<<"be helpful">>), UserChatMessage(<<MessageContent>>)>>

\* new Context(): no messages.
NewContext == <<>>

\* Context.push(message)
push(messages, message) == Append(messages, message)

\* JSON values: scalars carry their text, arrays their items.
JString(text) == [type |-> "string", text |-> text]
JNumber(text) == [type |-> "number", text |-> text]
JArray(items) == [type |-> "array", items |-> items]
JObject == [type |-> "object", items |-> <<>>]
SyntaxError == [type |-> "SyntaxError", items |-> <<>>]

\* JSON.parse on the response contents the completion port returns here.
JSONparse(text) ==
    CASE text = "[\"tea\",\"cake\"]" -> JArray(<<JString("tea"), JString("cake")>>)
      [] text = "[]" -> JArray(<<>>)
      [] text = "[1]" -> JArray(<<JNumber("1")>>)
      [] text = "{}" -> JObject
      [] OTHER -> SyntaxError

\* ajv with keywordSchema {type: "array", items: {type: "string"}}: the first
\* error's message, "" when the value is valid.
keywordSchemaError(value) ==
    IF value.type # "array" THEN "must be array"
    ELSE IF \E k \in 1..Len(value.items) : value.items[k].type # "string"
         THEN "must be string"
         ELSE ""

validateKeywords(value) == keywordSchemaError(value) = ""

\* What one call of the completion port ends with: a rejection, or a response
\* with its content and its usage.completion.
Rejection == [ok |-> FALSE, content |-> "", completion |-> 0]
Response(content, completion) == [ok |-> TRUE, content |-> content, completion |-> completion]

Contents == {"I think: tea", "{}", "[1]", "[]", "[\"tea\",\"cake\"]"}
Completions == {7, 9}
Outcomes == {Rejection} \cup {Response(c, u) : c \in Contents, u \in Completions}

\* The outcomes of the port when two invocations share it.
OutcomesShared == {Rejection, Response("I think: tea", 7), Response("[\"tea\",\"cake\"]", 7)}

\* The errors of tasks.ts and of chatCompletion.
ChatCompletionFailed == "Chat completion failed"
NotValidJSON == "Message is not valid JSON"
\* A message that counts one try too many.
UnableToParseOneMore(tries) ==
    <<"Unable to parse response after ", ToString(tries + 1), " tries">>

\* `Unable to parse response after ${maxTries} tries`: the number is rendered
\* in decimal between the two literal parts.
UnableToParse(tries) ==
    <<"Unable to parse response after ", ToString(tries), " tries">>

\* The user turn the retry loop appends after a failed attempt.
Feedback(message) ==
    UserChatMessage(<<"Unable to parse response. Please fix the error and try again. Error: ", message>>)

\* The DataItem of ChatMessage #data, and a key without one.
DataItem(content, size) == [present |-> TRUE, content |-> content, size |-> size]
NoDataItem == [present |-> FALSE]

Keys == {"keywords", "summary"}
NoAnnotations == [k \in Keys |-> NoDataItem]

\* The message may already carry keywords from an earlier run.
EarlierKeywords == DataItem(JArray(<<JString("old")>>), 5)
InitialAnnotations ==
    {NoAnnotations, [NoAnnotations EXCEPT !["keywords"] = EarlierKeywords]}

\* The messages a task built by wrap handles: 0 is the message it is invoked
\* with, k >= 1 the error message created after the k-th failed attempt.
Messages == 0..MaxTriesBound
NoStored == [m \in Messages |-> NoDataItem]

\* A wrapped task that has not been invoked.
NotWrapped == [pc |-> "idle", i |-> 0, ctx |-> NewContext, message |-> 0, error |-> <<>>]

\* An invocation that has not begun.
NotInvoked ==
    [task |-> "", pc |-> "idle", innerContext |-> NewContext, i |-> 0,
     calls |-> 0, hist |-> <<>>, writes |-> 0, error |-> <<>>]

----------------------------------------------------------------------------
TypeOK ==
    /\ order \in SeqsUpTo(Names, Cardinality(Names))
    /\ deps \in [Names -> SeqsUpTo(Names, MaxEdges)]
    /\ data \in [Names -> Actions \cup {""}]
    /\ mode \in {"idle", "execute", "executeParallel", "parallelPipe"}
    /\ status \in [Names -> {"none", "waiting", "running", "fulfilled", "rejected"}]
    /\ reason \in [Names -> Names \cup {""}]
    /\ calls \in [Names -> Nat]
    /\ task \in [Names -> Actions \cup {""}]
    /\ ran \in [Names -> Actions \cup {""}]
    /\ pos \in 0..Len(plan)

NoStatus == [n \in Names |-> "none"]
NoReason == [n \in Names |-> ""]
NoCalls == [n \in Names |-> 0]
NoRan == [n \in Names |-> ""]

\* new TaskGraph(), before any call.
NewTaskGraph ==
    /\ order = <<>>
    /\ deps = [n \in Names |-> <<>>]
    /\ task = [n \in Names |-> ""]
    /\ added = [n \in Names |-> ""]
    /\ data = [n \in Names |-> ""]
    /\ data0 = data
    /\ mode = "idle"
    /\ plan = <<>>
    /\ pos = 0
    /\ status = NoStatus
    /\ reason = NoReason
    /\ calls = NoCalls
    /\ ran = NoRan
    /\ log = <<>>
    /\ result = NoError

Init ==
    /\ NewTaskGraph
    /\ maxTries = DefaultMaxTries
    /\ context = SharedContext
    /\ annotations = NoAnnotations
    /\ inv = [v \in Invocations |-> NotInvoked]
    /\ wrapped = NotWrapped
    /\ stored = NoStored

\* A registration that keeps the descriptor a name already has.
addIfAbsent(name, dependencies, action) ==
    /\ mode = "idle"
    /\ order' = IF has(name) THEN order ELSE Append(order, name)
    /\ deps' = IF has(name) THEN deps ELSE [deps EXCEPT ![name] = dependencies]
    /\ task' = IF has(name) THEN task ELSE [task EXCEPT ![name] = action]
    /\ UNCHANGED <<data, data0, mode, plan, pos, status, reason, calls, ran, log, result, jsonVars, wrapVars>>

\* add(task): Map.set keeps the position of a key that is already present and
\* replaces its descriptor (dependencies and action).
add(name, dependencies, action) ==
    /\ mode = "idle"
    /\ order' = IF has(name) THEN order ELSE Append(order, name)
    /\ deps' = [deps EXCEPT ![name] = dependencies]
    /\ task' = [task EXCEPT ![name] = action]
    /\ UNCHANGED <<data, data0, mode, plan, pos, status, reason, calls, ran, log, result, jsonVars, wrapVars>>

\* delete(name)
delete(name) ==
    /\ mode = "idle"
    /\ has(name)
    /\ order' = Remove(order, name)
    /\ deps' = [deps EXCEPT ![name] = <<>>]
    /\ task' = [task EXCEPT ![name] = ""]
    /\ UNCHANGED <<data, data0, mode, plan, pos, status, reason, calls, ran, log, result, jsonVars, wrapVars>>

\* A set that replaces the whole store by the one entry.
setAlone(store, key, content) ==
    [k \in DOMAIN store |-> IF k = key THEN content ELSE ""]

\* message.set(key, content): a task stores its result under its own key.
set(store, key, content) == [store EXCEPT ![key] = content]

----------------------------------------------------------------------------
\* execute: the plan is computed, then the actions are awaited one by one.

\* The call has ended: it returned or threw.
Done == result.kind # "none"

\* A call whose plan computation throws ends at once with that error.
planFails(method, err) ==
    /\ mode' = method
    /\ result' = err
    /\ data0' = data
    /\ UNCHANGED <<order, deps, task, added, data, plan, pos, status, reason, calls, ran, log, jsonVars, wrapVars>>

\* A loop that does not await the first action before invoking the second.
executeNoAwait ==
    /\ mode = "idle"
    /\ LET ts == topologicalSort
           n == IF Len(ts.sorted) < 2 THEN Len(ts.sorted) ELSE 2 IN
       IF ts.err.kind # "none" THEN planFails("execute", ts.err)
       ELSE /\ plan' = ts.sorted
            /\ data0' = data
            /\ mode' = "execute"
            /\ IF ts.sorted = <<>>
               THEN /\ result' = Ok
                    /\ UNCHANGED <<pos, status, calls, ran, log>>
               ELSE /\ pos' = 1
                    /\ status' = [t \in Names |->
                                    IF t \in Range(SubSeq(ts.sorted, 1, n))
                                    THEN "running" ELSE status[t]]
                    /\ calls' = [t \in Names |->
                                   IF t \in Range(SubSeq(ts.sorted, 1, n))
                                   THEN calls[t] + 1 ELSE calls[t]]
                    /\ ran' = [t \in Names |->
                                 IF t \in Range(SubSeq(ts.sorted, 1, n))
                                 THEN task[t] ELSE ran[t]]
                    /\ log' = log \o SubSeq(ts.sorted, 1, n)
                    /\ UNCHANGED result
            /\ UNCHANGED <<order, deps, task, added, data, reason, jsonVars, wrapVars>>

\* execute up to its first await: topologicalSort, then the first action.
execute ==
    /\ mode = "idle"
    /\ LET ts == topologicalSort IN
       IF ts.err.kind # "none" THEN planFails("execute", ts.err)
       ELSE /\ plan' = ts.sorted
            /\ data0' = data
            /\ mode' = "execute"
            /\ IF ts.sorted = <<>>
               THEN /\ result' = Ok
                    /\ UNCHANGED <<pos, status, calls, ran, log>>
               ELSE /\ pos' = 1
                    /\ status' = [status EXCEPT ![ts.sorted[1]] = "running"]
                    /\ calls' = [calls EXCEPT ![ts.sorted[1]] = @ + 1]
                    /\ ran' = [ran EXCEPT ![ts.sorted[1]] = task[ts.sorted[1]]]
                    /\ log' = Append(log, ts.sorted[1])
                    /\ UNCHANGED result
            /\ UNCHANGED <<order, deps, task, added, data, reason, jsonVars, wrapVars>>

\* The awaited action completes: the loop goes on to the next name of the plan.
executeTaskResolves ==
    /\ mode = "execute"
    /\ ~Done
    /\ status[plan[pos]] = "running"
    /\ data' = set(data, plan[pos], ran[plan[pos]])
    /\ IF pos < Len(plan)
       THEN /\ pos' = pos + 1
            /\ status' = [status EXCEPT ![plan[pos]] = "fulfilled",
                                        ![plan[pos + 1]] = "running"]
            /\ calls' = [calls EXCEPT ![plan[pos + 1]] = @ + 1]
            /\ ran' = [ran EXCEPT ![plan[pos + 1]] = task[plan[pos + 1]]]
            /\ log' = Append(log, plan[pos + 1])
            /\ UNCHANGED result
       ELSE /\ status' = [status EXCEPT ![plan[pos]] = "fulfilled"]
            /\ result' = Ok
            /\ UNCHANGED <<pos, calls, ran, log>>
    /\ UNCHANGED <<order, deps, task, added, data0, mode, plan, reason, jsonVars, wrapVars>>

\* A catch that drops the error, so that the loop goes on.
executeTaskRejectsSwallowed ==
    /\ mode = "execute"
    /\ ~Done
    /\ status[plan[pos]] = "running"
    /\ reason' = [reason EXCEPT ![plan[pos]] = plan[pos]]
    /\ IF pos < Len(plan)
       THEN /\ pos' = pos + 1
            /\ status' = [status EXCEPT ![plan[pos]] = "rejected",
                                        ![plan[pos + 1]] = "running"]
            /\ calls' = [calls EXCEPT ![plan[pos + 1]] = @ + 1]
            /\ ran' = [ran EXCEPT ![plan[pos + 1]] = task[plan[pos + 1]]]
            /\ log' = Append(log, plan[pos + 1])
            /\ UNCHANGED result
       ELSE /\ status' = [status EXCEPT ![plan[pos]] = "rejected"]
            /\ result' = Ok
            /\ UNCHANGED <<pos, calls, ran, log>>
    /\ UNCHANGED <<order, deps, task, added, data, data0, mode, plan, jsonVars, wrapVars>>

\* The awaited action throws: the catch wraps the error and the call fails.
executeTaskRejects ==
    /\ mode = "execute"
    /\ ~Done
    /\ status[plan[pos]] = "running"
    /\ status' = [status EXCEPT ![plan[pos]] = "rejected"]
    /\ reason' = [reason EXCEPT ![plan[pos]] = plan[pos]]
    /\ result' = AggregateError(<<plan[pos]>>, plan[pos])
    /\ UNCHANGED <<order, deps, task, added, data, data0, mode, plan, pos, calls, ran, log, jsonVars, wrapVars>>

----------------------------------------------------------------------------
\* executeParallel: one unit (executeTask) per name of the plan.

\* dependencies.map(dep => taskPromises.get(dep)): the units created so far
\* among the declared dependencies; a name with no unit yet maps to undefined,
\* which Promise.all treats as an already fulfilled value.
dependencyPromises(name) ==
    {d \in Range(get(name)) : /\ d \in Range(plan)
                              /\ IndexOf(plan, d) < IndexOf(plan, name)}

\* A wait that is over as soon as one unit is fulfilled.
PromiseAny(st, ps) ==
    IF ps = {} \/ \E p \in ps : st[p] = "fulfilled" THEN "fulfilled"
    ELSE IF \A p \in ps : st[p] = "rejected" THEN "rejected"
    ELSE "pending"

\* A wait that is over when every unit has settled, whatever the outcome.
PromiseAllSettled(st, ps) ==
    IF \A p \in ps : st[p] \in {"fulfilled", "rejected"} THEN "fulfilled"
    ELSE "pending"

\* Promise.all over the units ps, given the states st of the units.
PromiseAll(st, ps) ==
    IF \E p \in ps : st[p] = "rejected" THEN "rejected"
    ELSE IF \A p \in ps : st[p] = "fulfilled" THEN "fulfilled"
    ELSE "pending"

\* The rejection of a unit rejects the Promise.all of every unit waiting for
\* it, which throws out of executeTask before the action is invoked; the unit
\* is rejected with the same error, and so on along the dependents.
RECURSIVE rejectWaiting(_)
rejectWaiting(sr) ==
    LET hit == {u \in Names : /\ sr.status[u] = "waiting"
                              /\ PromiseAll(sr.status, dependencyPromises(u)) = "rejected"}
    IN IF hit = {} THEN sr
       ELSE LET u == CHOOSE x \in hit : TRUE
                d == CHOOSE x \in dependencyPromises(u) : sr.status[x] = "rejected"
            IN rejectWaiting([status |-> [sr.status EXCEPT ![u] = "rejected"],
                              reason |-> [sr.reason EXCEPT ![u] = sr.reason[d]]])

\* executeParallel up to its await: topologicalSort, then the loop that
\* creates the units; every unit suspends at its await Promise.all.
executeParallel ==
    /\ mode = "idle"
    /\ LET ts == topologicalSort IN
       IF ts.err.kind # "none" THEN planFails("executeParallel", ts.err)
       ELSE /\ plan' = ts.sorted
            /\ data0' = data
            /\ mode' = "executeParallel"
            /\ status' = [n \in Names |->
                            IF n \in Range(ts.sorted) THEN "waiting" ELSE "none"]
            /\ UNCHANGED <<order, deps, task, added, data, pos, reason, calls, ran, log, result, jsonVars, wrapVars>>

\* executeTask resumes after await Promise.all and invokes the action.
executeTask(name) ==
    /\ mode = "executeParallel"
    /\ status[name] = "waiting"
    /\ PromiseAll(status, dependencyPromises(name)) = "fulfilled"
    /\ status' = [status EXCEPT ![name] = "running"]
    /\ calls' = [calls EXCEPT ![name] = @ + 1]
    /\ ran' = [ran EXCEPT ![name] = task[name]]
    /\ log' = Append(log, name)
    /\ UNCHANGED <<order, deps, task, added, data, data0, mode, plan, pos, reason, result, jsonVars, wrapVars>>

\* The action of a unit completes: the unit is fulfilled.
unitResolves(name) ==
    /\ mode = "executeParallel"
    /\ status[name] = "running"
    /\ data' = set(data, name, ran[name])
    /\ status' = [status EXCEPT ![name] = "fulfilled"]
    /\ UNCHANGED <<order, deps, task, added, data0, mode, plan, pos, reason, calls, ran, log, result, jsonVars, wrapVars>>

\* The action of a unit throws: the unit is rejected with that error.
unitRejects(name) ==
    /\ mode = "executeParallel"
    /\ status[name] = "running"
    /\ LET sr == rejectWaiting([status |-> [status EXCEPT ![name] = "rejected"],
                                reason |-> [reason EXCEPT ![name] = name]])
       IN /\ status' = sr.status
          /\ reason' = sr.reason
    /\ UNCHANGED <<order, deps, task, added, data, data0, mode, plan, pos, calls, ran, log, result, jsonVars, wrapVars>>

isRejected(name) == status[name] = "rejected"

\* A wait that is over at the first rejection, as Promise.all would be.
allOrFirstRejection ==
    \/ \E n \in Range(plan) : status[n] = "rejected"
    \/ \A n \in Range(plan) : status[n] = "fulfilled"

\* A wait that is over only when every unit is fulfilled.
allFulfilled == \A n \in Range(plan) : status[n] = "fulfilled"

\* Promise.allSettled over the units: pending until every unit has settled.
allSettled == \A n \in Range(plan) : status[n] \in {"fulfilled", "rejected"}

\* An aggregate that reports the first rejection only.
executeParallelSettlesFirstCause ==
    /\ mode = "executeParallel"
    /\ ~Done
    /\ allSettled
    /\ LET rejected == SelectSeq(plan, isRejected) IN
       result' = IF Len(rejected) > 0
                 THEN AggregateError(<<reason[rejected[1]]>>, "")
                 ELSE Ok
    /\ UNCHANGED <<order, deps, task, added, data, data0, mode, plan, pos, status, reason, calls, ran, log, jsonVars, wrapVars>>

\* executeParallel resumes after await Promise.allSettled.
executeParallelSettles ==
    /\ mode = "executeParallel"
    /\ ~Done
    /\ allSettled
    /\ LET rejected == SelectSeq(plan, isRejected) IN
       result' = IF Len(rejected) > 0
                 THEN AggregateError([i \in 1..Len(rejected) |-> reason[rejected[i]]], "")
                 ELSE Ok
    /\ UNCHANGED <<order, deps, task, added, data, data0, mode, plan, pos, status, reason, calls, ran, log, jsonVars, wrapVars>>

\* The caller has received the outcome; the graph and the message live on.
callReturns ==
    /\ Done
    /\ mode' = "idle"
    /\ plan' = <<>>
    /\ pos' = 0
    /\ status' = NoStatus
    /\ reason' = NoReason
    /\ calls' = NoCalls
    /\ ran' = NoRan
    /\ log' = <<>>
    /\ result' = NoError
    /\ data0' = data
    /\ UNCHANGED <<order, deps, task, added, data, jsonVars, wrapVars>>

\* The graph stays within the bound on declared dependencies.
WithinEdges(name, dependencies, max) ==
    SumLen(deps, Names \ {name}) + Len(dependencies) <= max

\* The steps of a call in progress, and its end.
CallStep ==
    \/ execute
    \/ executeTaskResolves
    \/ executeTaskRejects
    \/ executeParallel
    \/ \E n \in Names : executeTask(n)
    \/ \E n \in Names : unitResolves(n)
    \/ \E n \in Names : unitRejects(n)
    \/ executeParallelSettles
    \/ callReturns

Next ==
    \/ \E n \in Names, ds \in SeqsUpTo(Names, MaxEdges) :
          /\ mode = "idle"
          /\ WithinEdges(n, ds, MaxEdges)
          /\ add(n, ds, "f")
          /\ added' = [added EXCEPT ![n] = "f"]
    \/ \E n \in Names : delete(n) /\ added' = [added EXCEPT ![n] = ""]
    \/ CallStep

Spec == Init /\ [][Next]_vars

\* The same calls on small graphs whose descriptors the caller may replace by
\* descriptors with another action.
NextReplace ==
    \/ \E n \in Names, ds \in SeqsUpTo(Names, MaxEdgesReplace), a \in Actions :
          /\ mode = "idle"
          /\ WithinEdges(n, ds, MaxEdgesReplace)
          /\ add(n, ds, a)
          /\ added' = [added EXCEPT ![n] = a]
    \/ \E n \in Names : delete(n) /\ added' = [added EXCEPT ![n] = ""]
    \/ CallStep

SpecReplace == Init /\ [][NextReplace]_vars

\* The same calls when every invoked action settles and the event loop runs
\* every continuation that is ready: the await of an action ends, a unit whose
\* dependencies are fulfilled resumes, and the allSettled wait resumes.
Fairness ==
    /\ WF_vars(executeTaskResolves \/ executeTaskRejects)
    /\ WF_vars(\E n \in Names : executeTask(n))
    /\ WF_vars(\E n \in Names : unitResolves(n) \/ unitRejects(n))
    /\ WF_vars(executeParallelSettles)

NextLive ==
    \/ \E n \in Names, ds \in SeqsUpTo(Names, MaxEdgesLive) :
          /\ mode = "idle"
          /\ WithinEdges(n, ds, MaxEdgesLive)
          /\ add(n, ds, "f")
          /\ added' = [added EXCEPT ![n] = "f"]
    \/ \E n \in Names : delete(n) /\ added' = [added EXCEPT ![n] = ""]
    \/ CallStep

SpecLive == Init /\ [][NextLive]_vars /\ Fairness

----------------------------------------------------------------------------
\* parallelPipe(...tasks): a task that invokes all its tasks and awaits
\* Promise.all over their promises. The tasks are named as in the graph and
\* write under their own name.

\* The error a task of the pipe throws, handed on unwrapped by Promise.all.
TaskError(name) == [kind |-> "Error", path |-> <<>>, name |-> name, causes |-> <<>>]

\* The number of tasks of the pipe that have settled. When the piped task
\* ends, pos keeps the number of its tasks that had settled by then.
SettledCount(st) == Cardinality({n \in Range(plan) : st[n] \in {"fulfilled", "rejected"}})

\* The argument lists of parallelPipe: tasks without repetition.
PipeTasks == {ts \in SeqsUpTo(Names, Cardinality(Names)) :
                 \A i, j \in 1..Len(ts) : i # j => ts[i] # ts[j]}

\* The piped task is invoked: tasks.map invokes every task in turn, then the
\* await of Promise.all suspends; Promise.all of no promise is fulfilled.
parallelPipe(tasks) ==
    /\ mode = "idle"
    /\ mode' = "parallelPipe"
    /\ plan' = tasks
    /\ data0' = data
    /\ status' = [n \in Names |-> IF n \in Range(tasks) THEN "running" ELSE "none"]
    /\ calls' = [n \in Names |-> IF n \in Range(tasks) THEN calls[n] + 1 ELSE calls[n]]
    /\ ran' = [n \in Names |-> IF n \in Range(tasks) THEN "f" ELSE ran[n]]
    /\ log' = log \o tasks
    /\ result' = IF tasks = <<>> THEN Ok ELSE result
    /\ UNCHANGED <<order, deps, task, added, data, pos, reason, jsonVars, wrapVars>>

\* A task of the pipe completes: it has written its entry; Promise.all is
\* fulfilled when it was the last one and none was rejected.
pipeTaskResolves(name) ==
    /\ mode = "parallelPipe"
    /\ status[name] = "running"
    /\ data' = set(data, name, ran[name])
    /\ status' = [status EXCEPT ![name] = "fulfilled"]
    /\ result' = IF ~Done /\ \A n \in Range(plan) \ {name} : status[n] = "fulfilled"
                 THEN Ok ELSE result
    /\ pos' = IF ~Done /\ result'.kind # "none" THEN Len(plan) ELSE pos
    /\ UNCHANGED <<order, deps, task, added, data0, mode, plan, reason, calls, ran, log, jsonVars, wrapVars>>

\* A pipe that surfaces a failure only when every task has settled.
pipeTaskRejectsSettled(name) ==
    /\ mode = "parallelPipe"
    /\ status[name] = "running"
    /\ status' = [status EXCEPT ![name] = "rejected"]
    /\ reason' = [reason EXCEPT ![name] = name]
    /\ result' = IF ~Done /\ \A n \in Range(plan) \ {name} : status[n] \in {"fulfilled", "rejected"}
                 THEN TaskError(name) ELSE result
    /\ pos' = IF ~Done /\ result'.kind # "none" THEN SettledCount(status') ELSE pos
    /\ UNCHANGED <<order, deps, task, added, data, data0, mode, plan, calls, ran, log, jsonVars, wrapVars>>

\* A task of the pipe throws: Promise.all is rejected with the error of the
\* first task that does, and the piped task throws it.
pipeTaskRejects(name) ==
    /\ mode = "parallelPipe"
    /\ status[name] = "running"
    /\ status' = [status EXCEPT ![name] = "rejected"]
    /\ reason' = [reason EXCEPT ![name] = name]
    /\ result' = IF ~Done THEN TaskError(name) ELSE result
    /\ pos' = IF ~Done THEN SettledCount(status') ELSE pos
    /\ UNCHANGED <<order, deps, task, added, data, data0, mode, plan, calls, ran, log, jsonVars, wrapVars>>

\* The caller has received the outcome and no task of the pipe is running any
\* more; the message lives on.
pipeReturns ==
    /\ mode = "parallelPipe"
    /\ allSettled
    /\ callReturns

NextPipe ==
    \/ \E tasks \in PipeTasks : parallelPipe(tasks)
    \/ \E n \in Names : pipeTaskResolves(n)
    \/ \E n \in Names : pipeTaskRejects(n)
    \/ pipeReturns

SpecPipe == Init /\ [][NextPipe]_vars

----------------------------------------------------------------------------
\* The tasks built by createJsonTask (here: createExtractKeywords) and by
\* createSummarize, invoked on one message. A step runs an invocation from one
\* await of the completion port to the next.

\* A set that drops the size.
setDataItemSizeless(store, key, content, size) ==
    [store EXCEPT ![key] = DataItem(content, 0)]

\* message.set(key, content, size)
setDataItem(store, key, content, size) ==
    [store EXCEPT ![key] = DataItem(content, size)]

\* A loop that allows one more iteration.
loopOneMore(s, i) ==
    IF i <= maxTries
    THEN [s EXCEPT !.pc = "calling", !.i = i, !.calls = @ + 1]
    ELSE [s EXCEPT !.pc = "threw", !.i = i, !.error = UnableToParse(maxTries)]

\* The retry loop from iteration i on: complete() calls the completion port
\* with innerContext, or the loop is over and the task throws.
loop(s, i) ==
    IF i < maxTries
    THEN [s EXCEPT !.pc = "calling", !.i = i, !.calls = @ + 1]
    ELSE [s EXCEPT !.pc = "threw", !.i = i, !.error = UnableToParse(maxTries)]

\* A catch clause that appends nothing.
catchSilently(s, message) == loop(s, s.i + 1)

\* The catch clause of the loop: the feedback turn, then the next iteration.
catch(s, message) ==
    loop([s EXCEPT !.innerContext = push(@, Feedback(message))], s.i + 1)

\* An invocation whose conversation is created once per task, not per call.
createJsonTaskOneContext(v) ==
    /\ inv[v].pc = "idle"
    /\ LET other == CHOOSE w \in Invocations : w # v
           innerContext ==
               push(push(inv[other].innerContext,
                         SystemChatMessage(<<KeywordsInstruction>>)),
                    UserChatMessage(<<MessageContent>>))
       IN inv' = [inv EXCEPT ![v] =
                     loop([@ EXCEPT !.task = "keywords",
                                    !.innerContext = innerContext], 0)]
    /\ UNCHANGED <<graphVars, wrapVars, maxTries, context, annotations>>

\* The task is invoked: the conversation is built and the loop is entered.
createJsonTask(v) ==
    /\ inv[v].pc = "idle"
    /\ LET innerContext ==
               push(push(NewContext, SystemChatMessage(<<KeywordsInstruction>>)),
                    UserChatMessage(<<MessageContent>>))
       IN inv' = [inv EXCEPT ![v] =
                     loop([@ EXCEPT !.task = "keywords",
                                    !.innerContext = innerContext], 0)]
    /\ UNCHANGED <<graphVars, wrapVars, maxTries, context, annotations>>

\* A complete() that stores the decoded value before it validates it.
completeSetsFirst(v, r) ==
    /\ inv[v].pc = "calling"
    /\ inv[v].task = "keywords"
    /\ LET s == [inv[v] EXCEPT !.hist = Append(@, r)]
           pushed == [s EXCEPT !.innerContext = push(@, AssistantChatMessage(<<r.content>>))]
           parsedJson == JSONparse(r.content)
       IN IF ~r.ok
          THEN /\ inv' = [inv EXCEPT ![v] = catch(s, ChatCompletionFailed)]
               /\ UNCHANGED annotations
          ELSE IF parsedJson.type = "SyntaxError"
          THEN /\ inv' = [inv EXCEPT ![v] = catch(pushed, NotValidJSON)]
               /\ UNCHANGED annotations
          ELSE /\ annotations' = setDataItem(annotations, "keywords", parsedJson, r.completion)
               /\ inv' = [inv EXCEPT ![v] =
                     IF validateKeywords(parsedJson)
                     THEN [pushed EXCEPT !.pc = "returned", !.writes = @ + 1]
                     ELSE catch([pushed EXCEPT !.writes = @ + 1],
                                keywordSchemaError(parsedJson))]
    /\ UNCHANGED <<graphVars, wrapVars, maxTries, context>>

\* The completion port answers the call of complete(): the rest of complete(),
\* then the return of the task or the catch clause and the next iteration.
complete(v, r) ==
    /\ inv[v].pc = "calling"
    /\ inv[v].task = "keywords"
    /\ LET s == [inv[v] EXCEPT !.hist = Append(@, r)]
           pushed == [s EXCEPT !.innerContext = push(@, AssistantChatMessage(<<r.content>>))]
           parsedJson == JSONparse(r.content)
       IN IF ~r.ok
          THEN /\ inv' = [inv EXCEPT ![v] = catch(s, ChatCompletionFailed)]
               /\ UNCHANGED annotations
          ELSE IF parsedJson.type = "SyntaxError"
          THEN /\ inv' = [inv EXCEPT ![v] = catch(pushed, NotValidJSON)]
               /\ UNCHANGED annotations
          ELSE IF ~validateKeywords(parsedJson)
          THEN /\ inv' = [inv EXCEPT ![v] = catch(pushed, keywordSchemaError(parsedJson))]
               /\ UNCHANGED annotations
          ELSE /\ annotations' = setDataItem(annotations, "keywords", parsedJson, r.completion)
               /\ inv' = [inv EXCEPT ![v] =
                             [pushed EXCEPT !.pc = "returned", !.writes = @ + 1]]
    /\ UNCHANGED <<graphVars, wrapVars, maxTries, context>>

\* The summary task is invoked: its conversation is built and the port called.
createSummarize(v) ==
    /\ inv[v].pc = "idle"
    /\ LET innerContext ==
               push(push(NewContext, SystemChatMessage(<<SummaryInstruction>>)),
                    UserChatMessage(<<MessageContent>>))
       IN inv' = [inv EXCEPT ![v] =
                     [@ EXCEPT !.task = "summary", !.pc = "calling",
                               !.innerContext = innerContext, !.calls = 1]]
    /\ UNCHANGED <<graphVars, wrapVars, maxTries, context, annotations>>

\* The completion port answers the summary task: the response is stored, or
\* the failure of the port is the failure of the task.
summarize(v, r) ==
    /\ inv[v].pc = "calling"
    /\ inv[v].task = "summary"
    /\ LET s == [inv[v] EXCEPT !.hist = Append(@, r)]
       IN IF ~r.ok
          THEN /\ inv' = [inv EXCEPT ![v] =
                             [s EXCEPT !.pc = "threw", !.error = <<ChatCompletionFailed>>]]
               /\ UNCHANGED annotations
          ELSE /\ annotations' = setDataItem(annotations, "summary", r.content, r.completion)
               /\ inv' = [inv EXCEPT ![v] =
                             [s EXCEPT !.pc = "returned", !.writes = @ + 1]]
    /\ UNCHANGED <<graphVars, wrapVars, maxTries, context>>

\* A message, a shared context and a keyword task created with some maxTries.
InitJson ==
    /\ NewTaskGraph
    /\ maxTries \in 0..MaxTriesBound
    /\ context = SharedContext
    /\ annotations \in InitialAnnotations
    /\ inv = [v \in Invocations |-> NotInvoked]
    /\ wrapped = NotWrapped
    /\ stored = NoStored

\* One invocation, the completion port answering in every way.
NextJson ==
    \/ createJsonTask("first")
    \/ \E r \in Outcomes : complete("first", r)
    \/ createSummarize("first")
    \/ \E r \in Outcomes : summarize("first", r)

SpecJson == InitJson /\ [][NextJson]_vars

\* Two invocations interleaved, as under executeParallel or when a task is
\* invoked twice.
NextShared ==
    \/ \E v \in Invocations : createJsonTask(v)
    \/ \E v \in Invocations, r \in OutcomesShared : complete(v, r)
    \/ \E v \in Invocations : createSummarize(v)
    \/ \E v \in Invocations, r \in OutcomesShared : summarize(v, r)

SpecShared == InitJson /\ [][NextShared]_vars

----------------------------------------------------------------------------
\* The earlier keyword task, built by wrap("keywords", init, validate): a
\* recursive wrappedFn(message, context, i, previousContext).

LegacyKeywordsInstruction == "extract up to five keywords as a JSON array"

\* validate of extractKeywords: the message of the error it returns, "" when
\* it returns none.
validate(value) ==
    IF value.type # "array" THEN "Keywords must be an array, got object instead"
    ELSE IF Len(value.items) = 0 THEN "Keywords must not be empty"
    ELSE IF \E k \in 1..Len(value.items) : value.items[k].type # "string"
         THEN "Keywords must be an array of strings, got object instead"
         ELSE ""

FailedToParse == "Failed to parse as JSON"
TryError(tries) == <<"Maximum number of tries exceeded (", ToString(tries), ")">>

\* createErrorMessage(err, context): the message it creates and pushes.
createErrorMessage(message) ==
    UserChatMessage(<<"The following error occurred during parsing. Please try again. Error: ", message>>)

\* wrappedFn(message, context, i, ctx) entered with a previous context: the
\* guard on i, then the completion port is called with ctx.
wrappedFn(w, message, i, ctx) ==
    IF i > maxTries
    THEN [w EXCEPT !.pc = "threw", !.i = i, !.ctx = ctx, !.error = TryError(maxTries)]
    ELSE [w EXCEPT !.pc = "calling", !.i = i, !.ctx = ctx, !.message = message]

\* The task is invoked with the message: fn(message, context), i = 1 and no
\* previous context, so init runs and the content of the message is pushed.
wrap ==
    /\ wrapped.pc = "idle"
    /\ wrapped' =
          IF 1 > maxTries
          THEN [wrapped EXCEPT !.pc = "threw", !.i = 1, !.error = TryError(maxTries)]
          ELSE wrappedFn(wrapped, 0, 1,
                         push(push(NewContext, SystemChatMessage(<<LegacyKeywordsInstruction>>)),
                              UserChatMessage(<<MessageContent>>)))
    /\ UNCHANGED <<graphVars, jsonVars, stored>>

\* The completion port answers: the rest of wrappedFn. JSON.parse skips the
\* white space that trim() removes. A failed attempt creates an error message
\* and recurs with it; a valid value is set on the message of this activation.
wrappedFnResumes(r) ==
    /\ wrapped.pc = "calling"
    /\ LET json == JSONparse(r.content)
           retry(message) ==
               wrappedFn(wrapped, wrapped.i, wrapped.i + 1,
                         push(wrapped.ctx, createErrorMessage(message)))
       IN IF ~r.ok
          THEN /\ wrapped' = [wrapped EXCEPT !.pc = "threw",
                                             !.error = <<ChatCompletionFailed>>]
               /\ UNCHANGED stored
          ELSE IF json.type = "SyntaxError"
          THEN /\ wrapped' = retry(FailedToParse)
               /\ UNCHANGED stored
          ELSE IF validate(json) # ""
          THEN /\ wrapped' = retry(validate(json))
               /\ UNCHANGED stored
          ELSE /\ stored' = [stored EXCEPT ![wrapped.message] = DataItem(json, r.completion)]
               /\ wrapped' = [wrapped EXCEPT !.pc = "returned"]
    /\ UNCHANGED <<graphVars, jsonVars>>

NextWrap ==
    \/ wrap
    \/ \E r \in Outcomes : wrappedFnResumes(r)

SpecWrap == InitJson /\ [][NextWrap]_vars

----------------------------------------------------------------------------
\* The dependency relation of the graph, stated without the traversal.

Registered == Range(order)

Declared(t) == Range(deps[t])

RECURSIVE Closure(_)
Closure(S) ==
    LET more == S \cup UNION {Declared(m) : m \in S}
    IN IF more = S THEN S ELSE Closure(more)

\* The declared and transitive dependencies of t.
TransitiveDeps(t) == Closure(Declared(t))

HasCycle == \E t \in Registered : t \in TransitiveDeps(t)

MissingDependency == \E t \in Registered : ~(Declared(t) \subseteq Registered)

Structural == {"CyclicDependencyError", "TaskNotFound"}

Settled == {"fulfilled", "rejected"}

\* The action of t was invoked and threw.
ActionFailed(t) == status[t] = "rejected" /\ reason[t] = t /\ calls[t] > 0

----------------------------------------------------------------------------
\* C1: on a graph whose dependencies are all registered and acyclic, the plan
\* of a call holds every registered task exactly once, and every task comes
\* after each of its declared and transitive dependencies.
C1_PlanIsTopological ==
    (mode # "idle" /\ ~HasCycle /\ ~MissingDependency) =>
        /\ result.kind \notin Structural
        /\ Len(plan) = Cardinality(Registered)
        /\ Range(plan) = Registered
        /\ \A t \in Registered : \A d \in TransitiveDeps(t) :
               IndexOf(plan, d) < IndexOf(plan, t)

\* A call on a chain registered dependents-first: the plan reverses it.
C1_Witness ==
    /\ mode = "execute"
    /\ order = <<"A", "B", "C">>
    /\ deps["A"] = <<"B">> /\ deps["B"] = <<"C">> /\ deps["C"] = <<>>
    /\ plan = <<"C", "B", "A">>

\* C2: in executeParallel the action of a task is invoked only when the unit of
\* each declared dependency has settled, and is never in progress together
\* with the action of a dependency.
C2_StartsAfterDependencies ==
    mode = "executeParallel" =>
        \A t \in Registered : \A d \in Declared(t) :
            /\ (calls[t] > 0) => (status[d] \in Settled)
            /\ ~(status[t] = "running" /\ status[d] = "running")

\* A dependent runs after its dependency, next to an unrelated running unit.
C2_Witness ==
    /\ mode = "executeParallel"
    /\ \E t, d, u \in Registered :
          /\ d \in Declared(t) /\ u \notin {t, d}
          /\ status[t] = "running" /\ status[d] = "fulfilled"
          /\ status[u] = "running"

\* C3 as stated: once the call has ended, every task that declares a failed
\* task as a dependency has had its own action invoked.
C3_DependentsStillRun ==
    (mode = "executeParallel" /\ Done /\ result.kind \notin Structural) =>
        \A t \in Registered : \A d \in Declared(t) :
            ActionFailed(d) => calls[t] > 0

\* C3 amended: a task that declares a rejected unit as a dependency never has
\* its action invoked; when the call ends its unit is rejected with the error
\* of a rejected dependency.
C3_DependentsOfFailedAreSkipped ==
    mode = "executeParallel" =>
        \A t \in Registered : \A d \in Declared(t) :
            status[d] = "rejected" =>
                /\ calls[t] = 0
                /\ status[t] \notin {"running", "fulfilled"}
                /\ Done => /\ status[t] = "rejected"
                           /\ \E x \in Declared(t) :
                                 status[x] = "rejected" /\ reason[t] = reason[x]

\* A chain A <- B <- C where the action of A threw: B and C never ran.
C3_Witness ==
    /\ mode = "executeParallel"
    /\ Done
    /\ \E a, b, c \in Registered :
          /\ a \in Declared(b) /\ b \in Declared(c) /\ a # b /\ b # c /\ a # c
          /\ ActionFailed(a)
          /\ status[b] = "rejected" /\ calls[b] = 0 /\ reason[b] = a
          /\ status[c] = "rejected" /\ calls[c] = 0 /\ reason[c] = a
          /\ result.causes = <<a, a, a>>

\* C4: in execute, when the action of a task throws, the call ends with an
\* aggregate error that names that task and has its error as the only cause,
\* and no action of a task later in the plan is invoked.
C4_FailFast ==
    mode = "execute" =>
        \A t \in Registered :
            status[t] = "rejected" =>
                /\ Done
                /\ result = AggregateError(<<t>>, t)
                /\ \A j \in (IndexOf(plan, t) + 1)..Len(plan) :
                       calls[plan[j]] = 0 /\ status[plan[j]] = "none"

\* The second of three tasks threw: the first ran, the third never did.
C4_Witness ==
    /\ mode = "execute"
    /\ Len(plan) = 3
    /\ status[plan[1]] = "fulfilled"
    /\ ActionFailed(plan[2])
    /\ calls[plan[3]] = 0
    /\ result.kind = "AggregateError"

\* C5: in execute the actions are invoked in plan order, at most one is in
\* progress, and each is invoked only after the previous one completed.
C5_StrictPlanOrder ==
    (mode = "execute" /\ result.kind \notin Structural) =>
        /\ Len(log) <= Len(plan)
        /\ log = SubSeq(plan, 1, Len(log))
        /\ Cardinality({t \in Names : status[t] = "running"}) <= 1
        /\ \A i \in 1..(Len(log) - 1) : status[log[i]] = "fulfilled"

\* The third action is in progress after the first two completed.
C5_Witness ==
    /\ mode = "execute"
    /\ Len(log) = 3
    /\ status[log[1]] = "fulfilled"
    /\ status[log[2]] = "fulfilled"
    /\ status[log[3]] = "running"

\* C6: in executeParallel on tasks without dependencies every action is
\* invoked exactly once whatever the others do, the call fails exactly when an
\* action threw, and the causes are the errors of the failing actions, one each.
C6_IndependentTasksAllRun ==
    (mode = "executeParallel" /\ \A t \in Registered : deps[t] = <<>>) =>
        LET failed == {t \in Registered : ActionFailed(t)} IN
        /\ \A t \in Registered : calls[t] <= 1
        /\ Done =>
              /\ \A t \in Registered : calls[t] = 1
              /\ (result.kind = "AggregateError") <=> (failed # {})
              /\ (result.kind = "ok") <=> (failed = {})
              /\ Range(result.causes) = failed
              /\ Len(result.causes) = Cardinality(failed)

\* Three independent tasks, the first registered one throws, the others succeed.
C6_Witness ==
    /\ mode = "executeParallel"
    /\ Done
    /\ Len(order) = 3
    /\ \A t \in Registered : deps[t] = <<>>
    /\ ActionFailed(order[1])
    /\ status[order[2]] = "fulfilled" /\ calls[order[2]] = 1
    /\ status[order[3]] = "fulfilled" /\ calls[order[3]] = 1
    /\ result.causes = <<order[1]>>

\* C7: when executeParallel has ended, every unit has settled: no action is
\* in progress and none can still be invoked.
C7_EndsAfterAllSettled ==
    (mode = "executeParallel" /\ Done /\ result.kind \notin Structural) =>
        /\ \A t \in Registered : status[t] \in Settled
        /\ \A t \in Names : ~ENABLED executeTask(t)

\* The call ended with a failure although an unrelated task, which has a
\* dependency of its own to wait for, ran to completion.
C7_Witness ==
    /\ mode = "executeParallel"
    /\ Done
    /\ result.kind = "AggregateError"
    /\ \E a, b, c \in Registered :
          /\ ActionFailed(a)
          /\ deps[a] = <<>> /\ deps[c] = <<>> /\ deps[b] = <<c>>
          /\ status[b] = "fulfilled" /\ status[c] = "fulfilled"

\* C8: on a graph with a cycle or an unregistered dependency a call of either
\* method ends during plan computation: no action is invoked and the
\* annotation store is as it was.
C8_StructuralErrorsBeforeAnyTask ==
    (mode # "idle" /\ (HasCycle \/ MissingDependency)) =>
        /\ Done
        /\ result.kind \in Structural
        /\ log = <<>>
        /\ calls = NoCalls
        /\ status = NoStatus
        /\ data = data0

\* executeParallel on a graph with an unregistered dependency, with a message
\* that holds annotations of an earlier call.
C8_Witness ==
    /\ mode = "executeParallel"
    /\ MissingDependency
    /\ result.kind = "TaskNotFound"
    /\ \E k \in Names : data[k] # ""

\* C9: when every declared dependency is registered, plan computation raises
\* the cycle error exactly when the dependency relation has a cycle, and a
\* cyclic graph yields no plan.
C9_CycleErrorIffCycle ==
    (mode # "idle" /\ ~MissingDependency) =>
        /\ (result.kind = "CyclicDependencyError") <=> HasCycle
        /\ HasCycle => plan = <<>>

\* A task that depends on itself, reached through another task.
C9_Witness ==
    /\ mode = "execute"
    /\ ~MissingDependency
    /\ result.kind = "CyclicDependencyError"
    /\ \E t \in Registered : t \in Declared(t) /\ order[1] # t

\* C10 as stated: the path of a cycle error starts and ends with the same
\* name and holds exactly the tasks of the cycle, each declaring the next.
C10_PathIsTheCycle ==
    result.kind = "CyclicDependencyError" =>
        LET p == result.path IN
        /\ Len(p) >= 2
        /\ p[1] = p[Len(p)]
        /\ \A i \in 1..(Len(p) - 1) : p[i + 1] \in Declared(p[i])
        /\ \A i, j \in 1..(Len(p) - 1) : p[i] = p[j] => i = j

\* C11: a task-not-found error names a dependency that some registered task
\* declares and that is not registered, never a registered task; and a graph
\* with an unregistered dependency yields no plan: without a cycle the call
\* ends with the task-not-found error.
C11_NotFoundNamesTheDependency ==
    mode # "idle" =>
        /\ result.kind = "TaskNotFound" =>
              /\ result.name \notin Registered
              /\ \E t \in Registered : result.name \in Declared(t)
        /\ MissingDependency => (plan = <<>> /\ result.kind \in Structural)
        /\ (MissingDependency /\ ~HasCycle) => result.kind = "TaskNotFound"

\* C was never registered (or was deleted) and is reached through A and B.
C11_Witness ==
    /\ mode # "idle"
    /\ order = <<"A", "B">>
    /\ deps["A"] = <<"B">> /\ deps["B"] = <<"C">>
    /\ result = TaskNotFound("C")

\* C19 as stated: a call whose plan was computed has, when it ends, invoked
\* exactly the tasks registered when it started.
C19_InvokesExactlyRegistered ==
    (mode # "idle" /\ Done /\ result.kind \notin Structural) =>
        {t \in Names : calls[t] > 0} = Registered

\* C19 amended: the graph holds, once per name, the descriptor last added and
\* not deleted since; the plan of a call holds exactly the registered names;
\* the call invokes only registered tasks, each at most once and with the
\* action of the descriptor last added, and all of them when it succeeds.
C19_PlanFollowsTheGraph ==
    mode # "idle" =>
        /\ Len(order) = Cardinality(Registered)
        /\ Registered = {n \in Names : added[n] # ""}
        /\ \A n \in Names : task[n] = added[n]
        /\ result.kind \notin Structural =>
              (Range(plan) = Registered /\ Len(plan) = Cardinality(Registered))
        /\ \A t \in Names :
              calls[t] > 0 => (t \in Registered /\ calls[t] = 1 /\ ran[t] = added[t])
        /\ result.kind = "ok" => \A t \in Registered : calls[t] = 1

\* A later call after a replacement and a deletion: the message still holds
\* what the replaced action f and the deleted task wrote in an earlier call,
\* and this call has invoked the new action g and not the deleted task.
C19_Witness ==
    /\ mode = "execute"
    /\ result.kind = "ok"
    /\ \E t, d \in Names :
          /\ t \in Registered /\ d \notin Registered
          /\ data0[t] = "f" /\ ran[t] = "g" /\ data[t] = "g"
          /\ data0[d] # "" /\ calls[d] = 0

\* The place in registration order of the first task from which n is reached.
FirstRoot(n) ==
    LET roots == {r \in 1..Len(order) :
                     n = order[r] \/ n \in TransitiveDeps(order[r])}
    IN IF roots = {} THEN 0
       ELSE CHOOSE r \in roots : \A q \in roots : r <= q

Unrelated(t, u) ==
    t # u /\ t \notin TransitiveDeps(u) /\ u \notin TransitiveDeps(t)

\* C20 as stated: tasks with no dependency relationship between them appear
\* in the plan in registration order.
C20_UnrelatedInRegistrationOrder ==
    (mode # "idle" /\ ~HasCycle /\ ~MissingDependency) =>
        \A t, u \in Registered :
            (Unrelated(t, u) /\ IndexOf(order, t) < IndexOf(order, u))
                => IndexOf(plan, t) < IndexOf(plan, u)

\* C20 amended: the plan is the function topologicalSort of the graph; it
\* lists the tasks grouped by the first registered task that reaches them, so
\* a task precedes a later registered, unrelated task unless that task is a
\* dependency of a task registered before the first; and the dependencies of
\* the first registered task are taken in declared order.
C20_PlanIsPostOrder ==
    (mode # "idle" /\ ~HasCycle /\ ~MissingDependency) =>
        /\ plan = topologicalSort.sorted
        /\ \A i, j \in 1..Len(plan) :
              i < j => FirstRoot(plan[i]) <= FirstRoot(plan[j])
        /\ \A t, u \in Registered :
              ( /\ Unrelated(t, u)
                /\ IndexOf(order, t) < IndexOf(order, u)
                /\ \A x \in Registered :
                      IndexOf(order, x) < IndexOf(order, t) => u \notin TransitiveDeps(x) )
                => IndexOf(plan, t) < IndexOf(plan, u)
        /\ order # <<>> =>
              LET ds == deps[order[1]] IN
              \A i, j \in 1..Len(ds) :
                  (i < j /\ ds[i] # ds[j] /\ ds[j] \notin TransitiveDeps(ds[i])
                     /\ \A k \in 1..(i - 1) : ds[j] \notin ({ds[k]} \cup TransitiveDeps(ds[k])))
                    => IndexOf(plan, ds[i]) < IndexOf(plan, ds[j])

\* C, registered last, is a dependency of A: it is placed before B, which
\* was registered before it and has no dependency relationship with it.
C20_Witness ==
    /\ mode # "idle"
    /\ order = <<"A", "B", "C">>
    /\ deps["A"] = <<"C">> /\ deps["B"] = <<>> /\ deps["C"] = <<>>
    /\ plan = <<"C", "A", "B">>

----------------------------------------------------------------------------
\* The tasks of tasks.ts, stated over what the completion port delivered.

Keyword(v) == inv[v].task = "keywords"

Last(s) == s[Len(s)]

IsPrefix(s, t) == Len(s) <= Len(t) /\ SubSeq(t, 1, Len(s)) = s

\* The message of the error an attempt ends with, "" when it ends with none.
ErrorOf(r) ==
    IF ~r.ok THEN ChatCompletionFailed
    ELSE IF JSONparse(r.content).type = "SyntaxError" THEN NotValidJSON
    ELSE keywordSchemaError(JSONparse(r.content))

\* A response that is malformed or invalid, and one that is neither.
Refused(r) == r.ok /\ ErrorOf(r) # ""
Accepted(r) == r.ok /\ ErrorOf(r) = ""

AllRefused(hist) == \A j \in 1..Len(hist) : Refused(hist[j])

Opening(instruction) ==
    <<SystemChatMessage(<<instruction>>), UserChatMessage(<<MessageContent>>)>>

IsFeedback(turn) == turn.role = "user" /\ Len(turn.content) = 2

\* C12: as claimed, a failure of the completion port call is at once the
\* failure of the keyword task: the rejected call is the last call of the
\* invocation, the task has failed with the port's error, and no feedback turn
\* was appended to its conversation for it.
C12_PortFailurePropagates ==
    \A v \in Invocations :
        (Keyword(v) /\ \E j \in 1..Len(inv[v].hist) : ~inv[v].hist[j].ok) =>
            /\ ~Last(inv[v].hist).ok
            /\ inv[v].pc = "threw"
            /\ inv[v].error = <<ChatCompletionFailed>>
            /\ inv[v].calls = Len(inv[v].hist)
            /\ Feedback(ChatCompletionFailed) \notin Range(inv[v].innerContext)

\* C13: a keyword task never makes more than maxTries completion calls, and
\* with maxTries >= 1, an invocation that has ended after responses that all
\* failed parsing or validation has made exactly maxTries calls and has failed
\* with the retries-exhausted error.
C13_ExactlyMaxTriesCalls ==
    \A v \in Invocations :
        Keyword(v) =>
            /\ inv[v].calls <= maxTries
            /\ (maxTries >= 1 /\ inv[v].pc # "calling" /\ AllRefused(inv[v].hist)) =>
                  /\ inv[v].pc = "threw"
                  /\ inv[v].calls = maxTries
                  /\ Len(inv[v].hist) = maxTries
                  /\ inv[v].error = UnableToParse(maxTries)

\* With maxTries = 2 the port answered twice with invalid content.
C13_Witness ==
    /\ maxTries = 2
    /\ Keyword("first")
    /\ inv["first"].pc = "threw"
    /\ inv["first"].calls = 2
    /\ inv["first"].hist = <<Response("I think: tea", 7), Response("[1]", 9)>>

\* C14: when a keyword invocation has returned after k responses of which all
\* but the last were malformed or invalid, the last one parses and validates,
\* the invocation made exactly k <= maxTries completion calls, and the store
\* holds under "keywords" the decoded value of that response with the
\* completion cost of that call as its size.
C14_SuccessOnAttemptK ==
    \A v \in Invocations :
        LET hist == inv[v].hist
            k == Len(hist)
        IN ( /\ Keyword(v)
             /\ inv[v].pc = "returned"
             /\ \A j \in 1..(k - 1) : Refused(hist[j]) ) =>
               /\ k >= 1
               /\ Accepted(hist[k])
               /\ inv[v].calls = k
               /\ k <= maxTries
               /\ annotations["keywords"] =
                      DataItem(JSONparse(hist[k].content), hist[k].completion)

\* Malformed JSON twice, then valid JSON on the third call of maxTries = 3.
C14_Witness ==
    /\ maxTries = 3
    /\ Keyword("first")
    /\ inv["first"].pc = "returned"
    /\ inv["first"].hist = <<Response("I think: tea", 7), Response("I think: tea", 7),
                             Response("[\"tea\",\"cake\"]", 9)>>
    /\ annotations["keywords"] =
           DataItem(JArray(<<JString("tea"), JString("cake")>>), 9)

\* C15: a keyword invocation writes the store at most once and has not written
\* it when it failed; the item under "keywords" changes only in the step in
\* which an invocation returns, and then to the decoded value of a response
\* that passed parsing and validation.
C15_WrittenOnceWhenValid ==
    /\ [](\A v \in Invocations :
             Keyword(v) =>
                 /\ inv[v].writes <= 1
                 /\ inv[v].pc = "threw" => inv[v].writes = 0
                 /\ inv[v].writes = 1 => inv[v].pc = "returned")
    /\ [][ annotations' # annotations =>
              \E v \in Invocations :
                  /\ inv[v].pc = "calling"
                  /\ inv'[v].pc = "returned"
                  /\ Keyword(v) =>
                        /\ Accepted(Last(inv'[v].hist))
                        /\ annotations' =
                             [annotations EXCEPT !["keywords"] =
                                 DataItem(JSONparse(Last(inv'[v].hist).content),
                                          Last(inv'[v].hist).completion)] ]_vars

\* The invocation failed after a response that parsed but did not validate,
\* and the keywords of the earlier run are still in the store.
C15_Witness ==
    /\ Keyword("first")
    /\ inv["first"].pc = "threw"
    /\ \E j \in 1..Len(inv["first"].hist) : inv["first"].hist[j] = Response("[1]", 7)
    /\ annotations["keywords"] = EarlierKeywords

\* The turns a keyword invocation adds for the outcomes delivered to it: the
\* response when there is one, and the feedback when the attempt failed.
RECURSIVE TurnsOf(_)
TurnsOf(hist) ==
    IF Len(hist) = 0 THEN <<>>
    ELSE LET r == Head(hist) IN
         (IF r.ok THEN <<AssistantChatMessage(<<r.content>>)>> ELSE <<>>)
           \o (IF ErrorOf(r) # "" THEN <<Feedback(ErrorOf(r))>> ELSE <<>>)
           \o TurnsOf(Tail(hist))

\* C16: the shared context is never changed by the tasks, and the conversation
\* of every invocation begins empty and holds nothing but the opening of its
\* own task and the turns of the outcomes delivered to that invocation, also
\* when two invocations of one task or of two tasks are interleaved.
C16_ConversationsArePrivate ==
    /\ context = SharedContext
    /\ \A v \in Invocations :
          /\ inv[v].task = "keywords" =>
                inv[v].innerContext = Opening(KeywordsInstruction) \o TurnsOf(inv[v].hist)
          /\ inv[v].task = "summary" =>
                inv[v].innerContext = Opening(SummaryInstruction)

\* Two invocations of the keyword task are under way at once, each after a
\* failed attempt of its own.
C16_Witness ==
    /\ Keyword("first") /\ Keyword("second")
    /\ inv["first"].pc = "calling" /\ inv["second"].pc = "calling"
    /\ inv["first"].hist = <<Response("I think: tea", 7), Rejection>>
    /\ inv["second"].hist = <<Rejection>>
    /\ context = SharedContext

\* C17: the conversation passed to the k-th completion call of a keyword
\* invocation begins with the system instruction and one user turn with the
\* message's content, is exactly that for k = 1, and holds exactly k-1
\* feedback turns, the j-th carrying the message of the error of attempt j;
\* and no step removes or alters a turn of a conversation.
C17_FeedbackPerFailedAttempt ==
    /\ [](\A v \in Invocations :
             (Keyword(v) /\ inv[v].pc = "calling") =>
                 LET c == inv[v].innerContext
                     k == inv[v].calls
                     fb == SelectSeq(c, IsFeedback)
                 IN /\ IsPrefix(Opening(KeywordsInstruction), c)
                    /\ k = 1 => c = Opening(KeywordsInstruction)
                    /\ Len(fb) = k - 1
                    /\ Len(inv[v].hist) = k - 1
                    /\ \A j \in 1..(k - 1) : fb[j] = Feedback(ErrorOf(inv[v].hist[j])))
    /\ [][\A v \in Invocations :
             IsPrefix(inv[v].innerContext, inv'[v].innerContext)]_vars

\* The third call is made after a malformed and then an invalid response: the
\* conversation holds the two feedback turns with the two error messages.
C17_Witness ==
    /\ Keyword("first")
    /\ inv["first"].pc = "calling"
    /\ inv["first"].calls = 3
    /\ inv["first"].hist = <<Response("I think: tea", 7), Response("{}", 7)>>
    /\ SelectSeq(inv["first"].innerContext, IsFeedback) =
           <<Feedback(NotValidJSON), Feedback("must be array")>>

\* C18: as claimed, of the responses that parse, those whose value is not an
\* array, is an empty array or has a non-string element are not the response
\* the invocation returned on, and are followed by a further call when tries
\* are left; only a non-empty array of strings is stored.
C18_RejectsEmptyKeywords ==
    \A v \in Invocations :
        Keyword(v) =>
            \A j \in 1..Len(inv[v].hist) :
                LET r == inv[v].hist[j]
                    value == JSONparse(r.content)
                IN (r.ok /\ value.type # "SyntaxError") =>
                      IF /\ value.type = "array"
                         /\ Len(value.items) >= 1
                         /\ \A k \in 1..Len(value.items) : value.items[k].type = "string"
                      THEN /\ inv[v].pc = "returned"
                           /\ j = Len(inv[v].hist)
                           /\ annotations["keywords"] = DataItem(value, r.completion)
                      ELSE /\ ~(inv[v].pc = "returned" /\ j = Len(inv[v].hist))
                           /\ j < maxTries => inv[v].calls > j

\* C21: as claimed, the retries-exhausted error of the keyword task carries
\* the key of the task and the number of attempts made.
C21_ErrorCarriesKeyAndCount ==
    \A v \in Invocations :
        (Keyword(v) /\ inv[v].pc = "threw") =>
            /\ "keywords" \in Range(inv[v].error)
            /\ ToString(inv[v].calls) \in Range(inv[v].error)

\* C21 (amended): the retries-exhausted error of the keyword task has the
\* message "Unable to parse response after N tries", N being the decimal
\* maxTries, which is the number of completion calls made; the key of the
\* task is no part of it.
C21_ErrorCarriesCountOnly ==
    \A v \in Invocations :
        (Keyword(v) /\ inv[v].pc = "threw") =>
            /\ inv[v].error =
                 <<"Unable to parse response after ", ToString(inv[v].calls), " tries">>
            /\ inv[v].calls = maxTries
            /\ "keywords" \notin Range(inv[v].error)

\* The budget of two tries is used up.
C21_Witness ==
    /\ maxTries = 2
    /\ Keyword("first")
    /\ inv["first"].pc = "threw"
    /\ inv["first"].error = <<"Unable to parse response after ", "2", " tries">>

\* C22: the tasks of a graph write under their own, pairwise distinct keys.
\* When executeParallel has succeeded, the store holds under the key of every
\* registered task the value that task wrote, whatever the interleaving was,
\* and every other key holds what it held before the call; and a step changes
\* the entry of a key only when the action of the task of that key completes,
\* to the value of that action.
C22_DistinctKeysAllKept ==
    /\ []((mode = "executeParallel" /\ result = Ok) =>
            \A k \in Names :
                data[k] = IF k \in Registered THEN task[k] ELSE data0[k])
    /\ [][\A k \in Names :
             data'[k] # data[k] =>
                 /\ status[k] = "running"
                 /\ status'[k] = "fulfilled"
                 /\ data'[k] = ran[k]]_vars

\* Two independent tasks with different actions ran in the order opposite to
\* their registration, and both entries are in the store.
C22_Witness ==
    /\ mode = "executeParallel"
    /\ result = Ok
    /\ order = <<"A", "B">>
    /\ log = <<"B", "A">>
    /\ task["A"] = "f" /\ task["B"] = "g"
    /\ data["A"] = "f" /\ data["B"] = "g"

\* C23: as claimed, the aggregate error of executeParallel holds the error of
\* each failing action exactly once: as many causes as there are tasks whose
\* action was invoked and threw, each of these errors among them, and none
\* for a task whose own action did not throw.
C23_EachFailureOnce ==
    (mode = "executeParallel" /\ Done /\ result.kind = "AggregateError") =>
        LET failed == {t \in Registered : ActionFailed(t)} IN
        /\ Len(result.causes) = Cardinality(failed)
        /\ Range(result.causes) = failed
        /\ \A i, j \in 1..Len(result.causes) :
              i # j => result.causes[i] # result.causes[j]

\* The number of invocations of the action of t recorded during the call.
Invoked(t) == Len(SelectSeq(log, LAMBDA x : x = t))

\* C24: within one execute or executeParallel call the action of every task
\* is invoked at most once, whatever the dependencies declared on it and
\* whether it failed or not, and no action of an unregistered name is
\* invoked; when the call has succeeded, the action of every registered task
\* was invoked exactly once.
C24_InvokedAtMostOnce ==
    mode \in {"execute", "executeParallel"} =>
        /\ \A t \in Names :
              /\ calls[t] <= 1
              /\ Invoked(t) = calls[t]
              /\ t \notin Registered => calls[t] = 0
        /\ result = Ok => \A t \in Registered : calls[t] = 1

\* B lists A twice and C lists A too; the parallel call succeeded and A ran
\* once.
C24_Witness ==
    /\ mode = "executeParallel"
    /\ result = Ok
    /\ order = <<"A", "B", "C">>
    /\ deps["B"] = <<"A", "A">> /\ deps["C"] = <<"A">>
    /\ calls = [n \in Names |-> 1]

\* C25: as claimed, when a task built by wrap has returned, the validated
\* value is stored under the key on the message the task was invoked with and
\* on no error message, also after failed attempts.
C25_StoredOnInvokedMessage ==
    wrapped.pc = "returned" =>
        /\ stored[0].present
        /\ \A m \in Messages : m # 0 => ~stored[m].present

\* C26: on a graph without cycle and with every dependency registered, a call
\* of executeParallel, and likewise a call of execute, eventually ends when
\* every invoked action settles: no unit waits forever for a dependency.
C26_CallsComplete ==
    /\ (mode = "executeParallel" /\ ~HasCycle /\ ~MissingDependency)
          ~> (mode = "executeParallel" /\ Done)
    /\ (mode = "execute" /\ ~HasCycle /\ ~MissingDependency)
          ~> (mode = "execute" /\ Done)

\* A parallel call on a chain of three tasks has ended with all units
\* fulfilled.
C26_Witness ==
    /\ mode = "executeParallel"
    /\ Done
    /\ order = <<"C", "B", "A">>
    /\ deps["C"] = <<"B">> /\ deps["B"] = <<"A">> /\ deps["A"] = <<>>
    /\ \A t \in Names : status[t] = "fulfilled"

\* C27: parallelPipe has invoked every one of its tasks, once, before it
\* waits for any; it has failed, with the error of the first task that
\* failed, as soon as one task has failed, whatever the other tasks are doing;
\* it has succeeded exactly when all its tasks have succeeded; and a task that
\* completes after the failure was surfaced still writes its entry and leaves
\* the outcome as it was.
C27_FailsFastTasksGoOn ==
    /\ [](mode = "parallelPipe" =>
            /\ \A t \in Range(plan) : calls[t] = 1 /\ status[t] \in {"running"} \cup Settled
            /\ (\E t \in Range(plan) : status[t] = "rejected") =>
                  /\ result.kind = "Error"
                  /\ status[result.name] = "rejected"
            /\ result = Ok <=> \A t \in Range(plan) : status[t] = "fulfilled"
            /\ Done => pos <= SettledCount(status))
    /\ [][(mode = "parallelPipe" /\ ~Done /\ result'.kind = "Error") =>
             /\ \A t \in Range(plan) : status[t] # "rejected"
             /\ status'[result'.name] = "rejected"]_vars
    /\ [][(mode = "parallelPipe" /\ result.kind = "Error") =>
             \A n \in Names :
                 (status[n] = "running" /\ status'[n] = "fulfilled") =>
                     /\ data'[n] = ran[n]
                     /\ result' = result]_vars

\* A failed first; the failure was surfaced when only A had settled, and B,
\* which went on running, has written its entry since.
C27_Witness ==
    /\ mode = "parallelPipe"
    /\ plan = <<"A", "B">>
    /\ result = TaskError("A")
    /\ pos = 1
    /\ status["B"] = "fulfilled"
    /\ data0["B"] = "" /\ data["B"] = "f"

====
